---- MODULE Spec2Model ----
(***************************************************************************)
(* Model of the OpenFaaS gateway client of pkg/openfaas (Client and its    *)
(* five methods InvokeSync, InvokeAsync, HasNamespaceSupport,              *)
(* GetNamespaces and GetFunctions).                                        *)
(*                                                                         *)
(* A call is split at the two points where the Go code blocks: inside      *)
(* c.client.Do(req) and inside ioutil.ReadAll(res.Body).  Between those    *)
(* points the context of the call may be cancelled.  A response body is a  *)
(* sequence of JSON tokens; json.Unmarshal is modelled on those tokens.    *)
(***************************************************************************)
EXTENDS Integers, Sequences, FiniteSets, TLC

\* ------------------------------------------------------------------ bounds
\* Longest arbitrary (possibly malformed) token sequence a gateway sends.
MaxTok == 3
\* Longest well-formed JSON array a gateway sends.
MaxElems == 2
\* Number of callers sharing one Client in the concurrent workload.
NumCallers == 2

\* ------------------------------------------------------- bodies and tokens
Scalars == {"a", "b", "1", "{f}"}
Tokens == {"[", "]", ","} \cup Scalars

RECURSIVE SeqsUpTo(_, _)
SeqsUpTo(S, n) ==
    IF n = 0 THEN {<<>>}
    ELSE LET shorter == SeqsUpTo(S, n - 1)
         IN shorter \cup {Append(s, x) : s \in {t \in shorter : Len(t) = n - 1}, x \in S}

RECURSIVE Render(_)
Render(list) ==
    IF Len(list) = 0 THEN <<>>
    ELSE IF Len(list) = 1 THEN <<list[1]>>
    ELSE <<list[1], ",">> \o Render(Tail(list))

JSONArray(list) == <<"[">> \o Render(list) \o <<"]">>

\* Every token sequence up to MaxTok over a reduced alphabet (malformed and
\* well-formed alike), every single scalar, and every array of up to MaxElems
\* scalars.
Malformable == {"[", "]", ",", "a"}
Bodies ==
    SeqsUpTo(Malformable, MaxTok)
        \cup {<<t>> : t \in Scalars}
        \cup {JSONArray(l) : l \in SeqsUpTo(Scalars, MaxElems)}

Statuses == {200, 202, 401, 404, 500}
Names == {"echo", "hash"}
Namespaces == {"", "prod"}
Invocations == {[hasMessage |-> FALSE], [hasMessage |-> TRUE]}
Credentials == {"nil", "user:password"}
Callers == 1 .. NumCallers

\* The workload a shared client is exercised with by several callers.
ConcStatuses == {200, 401}
ConcBodies == {<<"a">>}
ConcNames == {"echo"}
ConcNamespaces == {"prod"}
ConcInvocations == {[hasMessage |-> TRUE]}
ConcCredentials == {"user:password"}

\* ------------------------------------------------------------------ errors
NoError == [kind |-> "nil", code |-> 0, name |-> ""]
\* errors.Wrapf(err, "unable to invoke function %s", name) and the like
TransportError(name) == [kind |-> "TransportError", code |-> 0, name |-> name]
\* errors.New("OpenFaaS Credentials are invalid")
AuthenticationError == [kind |-> "AuthenticationError", code |-> 0, name |-> ""]
\* errors.New(fmt.Sprintf("Function %s is not deployed", name))
NotFoundError(name) == [kind |-> "NotFoundError", code |-> 0, name |-> name]
\* errors.New(fmt.Sprintf("Received unexpected Status Code %d", res.StatusCode))
UnexpectedStatusError(code) == [kind |-> "UnexpectedStatusError", code |-> code, name |-> ""]

\* A returned pair (value, error); the value is a bool, a byte slice or a list.
Result(flag, bytes, list, isNil, err) ==
    [flag |-> flag, bytes |-> bytes, list |-> list, isNil |-> isNil, err |-> err]
NoResult == Result(FALSE, <<>>, <<>>, TRUE, NoError)

\* ------------------------------------------------------------ json.Unmarshal
\* Index after the JSON value that starts at s[i], 0 when there is none.
RECURSIVE ParseValue(_, _)
ParseValue(s, i) ==
    IF i > Len(s) THEN 0
    ELSE IF s[i] \in Scalars THEN i + 1
    ELSE IF s[i] # "[" THEN 0
    ELSE IF i + 1 <= Len(s) /\ s[i + 1] = "]" THEN i + 2
    ELSE LET RECURSIVE Elems(_)
             Elems(k) ==
                 LET j == ParseValue(s, k)
                 IN IF j = 0 \/ j > Len(s) THEN 0
                    ELSE IF s[j] = "]" THEN j + 1
                    ELSE IF s[j] = "," THEN Elems(j + 1)
                    ELSE 0
         IN Elems(i + 1)

\* checkValid: the whole input is exactly one JSON value.
Valid(s) == ParseValue(s, 1) = Len(s) + 1

\* The first tokens of the elements of the valid array s, in order; a nested
\* array is reported by its opening bracket.
ArrayElems(s) ==
    LET RECURSIVE Walk(_)
        Walk(k) ==
            IF s[k] = "]" THEN <<>>
            ELSE LET j == ParseValue(s, k)
                 IN <<s[k]>> \o (IF s[j] = "," THEN Walk(j + 1) ELSE <<>>)
    IN Walk(2)

\* json.Unmarshal(resp, &slice) for a nil slice: a syntax error leaves the slice
\* nil; a value that is no array is a type error and leaves it nil; an array
\* sets one element per array element, an unsuitable element stays the zero
\* value and the first such mismatch is the error returned.  fits are the
\* tokens the element type accepts, zero is the element type's zero value.
Unmarshal(resp, fits, zero) ==
    IF ~Valid(resp) THEN [err |-> "SyntaxError", isNil |-> TRUE, list |-> <<>>]
    ELSE IF resp[1] # "[" THEN [err |-> "UnmarshalTypeError", isNil |-> TRUE, list |-> <<>>]
    ELSE LET elems == ArrayElems(resp)
         IN [err |-> IF \A k \in 1 .. Len(elems) : elems[k] \in fits
                     THEN "nil" ELSE "UnmarshalTypeError",
             isNil |-> FALSE,
             list |-> [k \in 1 .. Len(elems) |-> IF elems[k] \in fits THEN elems[k] ELSE zero]]

\* into a []string: string literals fit, "" is the zero value
UnmarshalStrings(resp) == Unmarshal(resp, {"a", "b"}, "")
\* into a []types.FunctionStatus: objects fit, the empty struct is the zero value
UnmarshalFunctions(resp) == Unmarshal(resp, {"{f}"}, "{}")

\* ------------------------------------------------------------------- state
VARIABLES
    env,        \* the workload: active callers, function names, gateway replies
    built,      \* the arguments NewClient was called with
    client,     \* the shared Client: its fields client, credentials, url
    pc,         \* per caller: "idle", "do", "read", "switch" or "done"
    req,        \* per caller: the request built by the call in progress
    ctxDone,    \* per caller: the call's context has been cancelled
    res,        \* per caller: the response handed back by c.client.Do
    offset,     \* per caller: how many tokens of res.Body have been read
    body,       \* per caller: "none", "open" or "closed"
    closes,     \* per caller: how often res.Body.Close() ran
    result      \* per caller: what the call returned

vars == <<env, built, client, pc, req, ctxDone, res, offset, body, closes, result>>

GatewayURL == <<"http://gateway">>

NewClient(httpClient, creds, gatewayURL) ==
    [client |-> httpClient, credentials |-> creds, url |-> gatewayURL]

NoRequest == [op |-> "none", name |-> "", method |-> "", url |-> <<>>,
              hasBody |-> FALSE, auth |-> "nil", query |-> ""]
NoResponse == [StatusCode |-> 0, Body |-> <<>>]

\* A method that builds the target URL in place, in the receiver's url field.
ReceiverMutated(c, target) == [c EXCEPT !.url = target]
\* The methods have a pointer receiver and only read its fields.
Receiver(c, target) == c

\* The endpoint each method formats its URL with.
Path(op) ==
    CASE op = "InvokeSync" -> "/function/"
      [] op = "InvokeAsync" -> "/async-function/"
      [] op = "HasNamespaceSupport" -> "/system/namespaces"
      [] op = "GetNamespaces" -> "/system/namespaces"
      [] op = "GetFunctions" -> "/system/functions"

\* fmt.Sprintf("%s/function/%s", c.url, name) and its siblings
FunctionURL(c, path, name) ==
    IF name = "" THEN c.url \o <<path>> ELSE c.url \o <<path, name>>

\* http.NewRequestWithContext followed by req.SetBasicAuth when credentials
\* are configured.
NewRequest(c, op, method, name, hasBody, query) ==
    [op |-> op, name |-> name, method |-> method, url |-> FunctionURL(c, Path(op), name),
     hasBody |-> hasBody, auth |-> c.credentials, query |-> query]

InitWith(callers, credentials, names, invocations, namespaces, statuses, bodies) ==
    /\ env = [callers |-> callers, names |-> names, invocations |-> invocations,
              namespaces |-> namespaces, statuses |-> statuses, bodies |-> bodies]
    /\ \E creds \in credentials :
          /\ built = [client |-> "http", credentials |-> creds, url |-> GatewayURL]
          /\ client = NewClient("http", creds, GatewayURL)
    /\ pc = [i \in Callers |-> "idle"]
    /\ req = [i \in Callers |-> NoRequest]
    /\ ctxDone = [i \in Callers |-> FALSE]
    /\ res = [i \in Callers |-> NoResponse]
    /\ offset = [i \in Callers |-> 0]
    /\ body = [i \in Callers |-> "none"]
    /\ closes = [i \in Callers |-> 0]
    /\ result = [i \in Callers |-> NoResult]

\* One caller, every gateway reply.
Init == InitWith({1}, Credentials, Names, Invocations, Namespaces, Statuses, Bodies)
\* Several callers on one client, a small set of gateway replies.
InitConc ==
    InitWith(Callers, ConcCredentials, ConcNames, ConcInvocations, ConcNamespaces,
             ConcStatuses, ConcBodies)

\* ------------------------------------------------- entering c.client.Do(req)
Enter(i, r) ==
    /\ i \in env.callers
    /\ pc[i] = "idle"
    /\ pc' = [pc EXCEPT ![i] = "do"]
    /\ req' = [req EXCEPT ![i] = r]
    /\ client' = Receiver(client, r.url)
    /\ UNCHANGED <<env, built, ctxDone, res, offset, body, closes, result>>

InvokeSync(i) ==
    \E name \in env.names, invocation \in env.invocations :
        Enter(i, NewRequest(client, "InvokeSync", "POST", name,
                            invocation.hasMessage, ""))

InvokeAsync(i) ==
    \E name \in env.names, invocation \in env.invocations :
        Enter(i, NewRequest(client, "InvokeAsync", "POST", name,
                            invocation.hasMessage, ""))

HasNamespaceSupport(i) ==
    Enter(i, NewRequest(client, "HasNamespaceSupport", "GET", "",
                        FALSE, ""))

GetNamespaces(i) ==
    Enter(i, NewRequest(client, "GetNamespaces", "GET", "",
                        FALSE, ""))

GetFunctions(i) ==
    \E namespace \in env.namespaces :
        Enter(i, NewRequest(client, "GetFunctions", "GET", "",
                            FALSE, namespace))

\* ---------------------------------------------------- the code after Do
\* A switch without the case for 401.
InvokeSyncSwitchNo401(status, output, name) ==
    CASE status = 200 -> Result(FALSE, output, <<>>, FALSE, NoError)
      [] status = 404 -> Result(FALSE, <<>>, <<>>, TRUE, NotFoundError(name))
      [] OTHER -> Result(FALSE, <<>>, <<>>, TRUE, UnexpectedStatusError(status))

\* InvokeSync: switch res.StatusCode
InvokeSyncSwitch(status, output, name) ==
    CASE status = 200 -> Result(FALSE, output, <<>>, FALSE, NoError)
      [] status = 401 -> Result(FALSE, <<>>, <<>>, TRUE, AuthenticationError)
      [] status = 404 -> Result(FALSE, <<>>, <<>>, TRUE, NotFoundError(name))
      [] OTHER -> Result(FALSE, <<>>, <<>>, TRUE, UnexpectedStatusError(status))

\* A switch that accepts every 2xx status.
InvokeAsyncSwitchAny2xx(status, name) ==
    CASE status \in 200 .. 299 -> Result(TRUE, <<>>, <<>>, TRUE, NoError)
      [] status = 401 -> Result(FALSE, <<>>, <<>>, TRUE, AuthenticationError)
      [] status = 404 -> Result(FALSE, <<>>, <<>>, TRUE, NotFoundError(name))
      [] OTHER -> Result(FALSE, <<>>, <<>>, TRUE, UnexpectedStatusError(status))

\* InvokeAsync: switch res.StatusCode
InvokeAsyncSwitch(status, name) ==
    CASE status = 202 -> Result(TRUE, <<>>, <<>>, TRUE, NoError)
      [] status = 401 -> Result(FALSE, <<>>, <<>>, TRUE, AuthenticationError)
      [] status = 404 -> Result(FALSE, <<>>, <<>>, TRUE, NotFoundError(name))
      [] OTHER -> Result(FALSE, <<>>, <<>>, TRUE, UnexpectedStatusError(status))

\* A switch that reports no support when json.Unmarshal returned an error.
HasNamespaceSupportSwitchStrict(status, resp) ==
    CASE status = 200 ->
            LET d == UnmarshalStrings(resp)
            IN Result(d.err = "nil" /\ Len(d.list) > 0, <<>>, <<>>, TRUE, NoError)
      [] status = 401 -> Result(FALSE, <<>>, <<>>, TRUE, AuthenticationError)
      [] OTHER -> Result(FALSE, <<>>, <<>>, TRUE, NoError)

\* HasNamespaceSupport: switch res.StatusCode; the error of json.Unmarshal is
\* assigned and never read.
HasNamespaceSupportSwitch(status, resp) ==
    CASE status = 200 ->
            LET namespaces == UnmarshalStrings(resp).list
            IN Result(Len(namespaces) > 0, <<>>, <<>>, TRUE, NoError)
      [] status = 401 -> Result(FALSE, <<>>, <<>>, TRUE, AuthenticationError)
      [] OTHER -> Result(FALSE, <<>>, <<>>, TRUE, NoError)

\* A version that looks at the status before it decodes.
GetNamespacesStatusFirst(status, resp) ==
    LET d == UnmarshalStrings(resp)
    IN IF status = 401
       THEN Result(FALSE, <<>>, <<>>, TRUE, AuthenticationError)
       ELSE Result(FALSE, <<>>, d.list, d.isNil, NoError)

\* GetNamespaces: decode, then look at the status only when decoding failed.
GetNamespacesDecode(status, resp) ==
    LET d == UnmarshalStrings(resp)
    IN IF d.err # "nil"
       THEN IF status = 401
            THEN Result(FALSE, <<>>, <<>>, TRUE, AuthenticationError)
            ELSE Result(FALSE, <<>>, d.list, d.isNil, NoError)
       ELSE Result(FALSE, <<>>, d.list, d.isNil, NoError)

\* A version that looks at the status before it decodes.
GetFunctionsStatusFirst(status, resp) ==
    LET d == UnmarshalFunctions(resp)
    IN IF status = 401
       THEN Result(FALSE, <<>>, <<>>, TRUE, AuthenticationError)
       ELSE IF d.err # "nil"
       THEN Result(FALSE, <<>>, <<>>, TRUE, UnexpectedStatusError(status))
       ELSE Result(FALSE, <<>>, d.list, d.isNil, NoError)

\* GetFunctions: decode, then look at the status only when decoding failed.
GetFunctionsDecode(status, resp) ==
    LET d == UnmarshalFunctions(resp)
    IN IF d.err # "nil"
       THEN IF status = 401
            THEN Result(FALSE, <<>>, <<>>, TRUE, AuthenticationError)
            ELSE Result(FALSE, <<>>, <<>>, TRUE, UnexpectedStatusError(status))
       ELSE Result(FALSE, <<>>, d.list, d.isNil, NoError)

\* The calls that run ioutil.ReadAll(res.Body) once Do has returned status.
ReadsBody(op, status) ==
    \/ op \in {"InvokeSync", "GetNamespaces", "GetFunctions"}
    \/ op = "HasNamespaceSupport" /\ status = 200

\* What the call returns given the status and the bytes ReadAll handed back.
Outcome(r, status, resp) ==
    CASE r.op = "InvokeSync" -> InvokeSyncSwitch(status, resp, r.name)
      [] r.op = "InvokeAsync" -> InvokeAsyncSwitch(status, r.name)
      [] r.op = "HasNamespaceSupport" -> HasNamespaceSupportSwitch(status, resp)
      [] r.op = "GetNamespaces" -> GetNamespacesDecode(status, resp)
      [] r.op = "GetFunctions" -> GetFunctionsDecode(status, resp)

\* errors.Wrapf / errors.Wrap around the error of Do
DoError(r) ==
    IF r.op \in {"InvokeSync", "InvokeAsync"}
    THEN Result(FALSE, <<>>, <<>>, TRUE, TransportError(r.name))
    ELSE Result(FALSE, <<>>, <<>>, TRUE, TransportError(""))

\* ----------------------------------------------------------------- steps
\* The caller's context is cancelled (or its deadline passes) during the call.
Cancel(i) ==
    /\ pc[i] \in {"do", "read", "switch"}
    /\ ~ctxDone[i]
    /\ ctxDone' = [ctxDone EXCEPT ![i] = TRUE]
    /\ UNCHANGED <<env, built, client, pc, req, res, offset, body, closes, result>>

\* c.client.Do returns an error: the network failed or the context was
\* cancelled before the response arrived.  The call returns the wrapped error.
DoFails(i) ==
    /\ pc[i] = "do"
    /\ pc' = [pc EXCEPT ![i] = "done"]
    /\ result' = [result EXCEPT ![i] = DoError(req[i])]
    /\ UNCHANGED <<env, built, client, req, ctxDone, res, offset, body, closes>>

\* c.client.Do returns a response: status line and headers have arrived and
\* res.Body (never nil for a response of http.Client) is open and unread.
\* Once the context is cancelled Do returns the context's error instead.
DoReturns(i) ==
    /\ pc[i] = "do"
    /\ ~ctxDone[i]
    /\ \E status \in env.statuses, b \in env.bodies :
          /\ res' = [res EXCEPT ![i] = [StatusCode |-> status, Body |-> b]]
          /\ pc' = [pc EXCEPT ![i] =
                      IF ReadsBody(req[i].op, status) THEN "read" ELSE "switch"]
    /\ body' = [body EXCEPT ![i] = "open"]
    /\ offset' = [offset EXCEPT ![i] = 0]
    /\ UNCHANGED <<env, built, client, req, ctxDone, closes, result>>

\* ioutil.ReadAll takes the next part of the body off the connection.
ReadBody(i) ==
    /\ pc[i] = "read"
    /\ ~ctxDone[i]
    /\ offset[i] < Len(res[i].Body)
    /\ offset' = [offset EXCEPT ![i] = offset[i] + 1]
    /\ UNCHANGED <<env, built, client, pc, req, ctxDone, res, body, closes, result>>

\* The bytes ReadAll returns: everything read before end of file or before
\* the read failed; its error is discarded.
ReadAll(i) == SubSeq(res[i].Body, 1, offset[i])

\* The rest of the method: ReadAll returns (at end of file, or with the
\* context's error), the status is classified, the deferred res.Body.Close()
\* runs and the call returns.
Return(i) ==
    /\ \/ pc[i] = "switch"
       \/ pc[i] = "read" /\ (offset[i] = Len(res[i].Body) \/ ctxDone[i])
    /\ result' = [result EXCEPT ![i] = Outcome(req[i], res[i].StatusCode, ReadAll(i))]
    /\ body' = [body EXCEPT ![i] = "closed"]
    /\ closes' = [closes EXCEPT ![i] = closes[i] + 1]
    /\ pc' = [pc EXCEPT ![i] = "done"]
    /\ UNCHANGED <<env, built, client, req, ctxDone, res, offset>>

Next ==
    \E i \in Callers :
        \/ InvokeSync(i)
        \/ InvokeAsync(i)
        \/ HasNamespaceSupport(i)
        \/ GetNamespaces(i)
        \/ GetFunctions(i)
        \/ Cancel(i)
        \/ DoFails(i)
        \/ DoReturns(i)
        \/ ReadBody(i)
        \/ Return(i)

Spec == Init /\ [][Next]_vars
SpecConc == InitConc /\ [][Next]_vars

Done(i) == pc[i] = "done"
\* The transport handed back a response (Do returned no error).
Completed(i) == Done(i) /\ body[i] # "none"

Op(i) == req[i].op
Status(i) == res[i].StatusCode
\* The body read is a well-formed JSON array.
IsArray(b) == Valid(b) /\ b[1] = "["

\* ------------------------------------------------------------------ claims

\* C1: whenever the cancellation signal fired before a call completed, also
\* during the read of the body, the call has returned a transport failure.
CancelledCallFailsWithTransportError ==
    \A i \in Callers :
        Done(i) /\ ctxDone[i] => result[i].err.kind = "TransportError"

\* C2: a call that returns after the transport handed back a response has read
\* the response body to its end and closed it exactly once.
BodyDrainedAndClosedOnce ==
    \A i \in Callers :
        Completed(i) =>
            /\ body[i] = "closed"
            /\ closes[i] = 1
            /\ offset[i] = Len(res[i].Body)

\* C3: whenever the transport completes with status 401, the call fails with
\* AuthenticationError, whatever the operation and whatever the body.
Status401AlwaysAuthenticationError ==
    \A i \in Callers :
        Completed(i) /\ Status(i) = 401 => result[i].err = AuthenticationError

\* C4: InvokeSync against a gateway answering 200 with body p returns exactly
\* p, complete, with no error.
InvokeSync200ReturnsBody ==
    \A i \in Callers :
        Completed(i) /\ Op(i) = "InvokeSync" /\ Status(i) = 200 =>
            /\ result[i].err = NoError
            /\ ~result[i].isNil
            /\ result[i].bytes = res[i].Body

\* C5: with several callers on one client, in every state the client equals
\* what NewClient built, every request in progress is the one built from the
\* construction-time configuration and the caller's own arguments, every
\* returned result is the one determined by the caller's own request and own
\* response; and no step changes the call state of a caller that did not move.
ClientFixed == client = NewClient(built.client, built.credentials, built.url)
OwnRequest(i) ==
    /\ req[i].url = built.url \o <<Path(req[i].op)>>
                         \o (IF req[i].name = "" THEN <<>> ELSE <<req[i].name>>)
    /\ req[i].auth = built.credentials
OwnResult(i) ==
    result[i] = IF body[i] = "none" THEN DoError(req[i])
                ELSE Outcome(req[i], Status(i), ReadAll(i))
Untouched(i) ==
    (pc'[i] = pc[i] /\ offset'[i] = offset[i] /\ ctxDone'[i] = ctxDone[i]) =>
        /\ req'[i] = req[i]
        /\ res'[i] = res[i]
        /\ body'[i] = body[i]
        /\ closes'[i] = closes[i]
        /\ result'[i] = result[i]
ConcurrentCallsIndependent ==
    /\ [](ClientFixed /\ \A i \in Callers :
            /\ pc[i] # "idle" => OwnRequest(i)
            /\ Done(i) => OwnResult(i))
    /\ [][client' = client /\ built' = built /\ \A i \in Callers : Untouched(i)]_vars

\* Two callers of one client have both returned, with different results.
ConcurrentCallsWitness ==
    /\ Cardinality(env.callers) > 1
    /\ Completed(1) /\ Completed(2)
    /\ Op(1) = "InvokeSync" /\ Op(2) = "GetNamespaces"
    /\ Status(1) = 200 /\ Status(2) = 401
    /\ result[1] # result[2]

\* C6: InvokeSync and InvokeAsync against a gateway answering 401 fail with
\* AuthenticationError and return nil bytes / false, whatever the body holds.
Invoke401Fails ==
    \A i \in Callers :
        Completed(i) /\ Op(i) \in {"InvokeSync", "InvokeAsync"} /\ Status(i) = 401 =>
            result[i] = Result(FALSE, <<>>, <<>>, TRUE, AuthenticationError)

\* InvokeSync has returned for a 401 response whose body was not empty.
Invoke401Witness ==
    /\ Completed(1) /\ Op(1) = "InvokeSync" /\ Status(1) = 401
    /\ res[1].Body # <<>> /\ offset[1] = Len(res[1].Body)

\* C7: InvokeAsync returns true with no error exactly for status 202; every
\* other status gives false and an error, and a status other than 401 and 404
\* gives UnexpectedStatusError carrying that status.
InvokeAsyncOnly202 ==
    \A i \in Callers :
        Completed(i) /\ Op(i) = "InvokeAsync" =>
            /\ (result[i].flag /\ result[i].err = NoError) <=> Status(i) = 202
            /\ Status(i) # 202 => ~result[i].flag /\ result[i].err.kind # "nil"
            /\ Status(i) \notin {202, 401, 404} =>
                   result[i].err = UnexpectedStatusError(Status(i))

\* InvokeAsync has returned for a 200 response.
InvokeAsyncWitness ==
    Completed(1) /\ Op(1) = "InvokeAsync" /\ Status(1) = 200

\* C8 as stated: HasNamespaceSupport returns true exactly when the status is 200
\* and the body decodes (without error) to a non-empty list of names, and an
\* error exactly when the status is 401.
NamespaceSupportIffDecodes ==
    \A i \in Callers :
        Completed(i) /\ Op(i) = "HasNamespaceSupport" =>
            LET d == UnmarshalStrings(ReadAll(i))
            IN /\ result[i].flag <=> (Status(i) = 200 /\ d.err = "nil" /\ Len(d.list) > 0)
               /\ result[i].err.kind # "nil" <=> Status(i) = 401

\* C8 as amended: HasNamespaceSupport returns true exactly when the status is
\* 200 and the body read is a well-formed JSON array with at least one
\* element, whether or not the elements are strings; it returns an error, which
\* is AuthenticationError, exactly when the status is 401; everything else is
\* false with no error.
NamespaceSupportIffNonEmptyArray ==
    \A i \in Callers :
        Completed(i) /\ Op(i) = "HasNamespaceSupport" =>
            /\ result[i].flag <=>
                   (Status(i) = 200 /\ IsArray(ReadAll(i)) /\ Len(ReadAll(i)) > 2)
            /\ result[i].err.kind # "nil" <=> Status(i) = 401
            /\ Status(i) = 401 => result[i].err = AuthenticationError /\ ~result[i].flag

\* HasNamespaceSupport has returned true for a 200 body that is an array with
\* an element that is no string.
NamespaceSupportWitness ==
    /\ Completed(1) /\ Op(1) = "HasNamespaceSupport" /\ Status(1) = 200
    /\ UnmarshalStrings(ReadAll(1)).err = "UnmarshalTypeError"
    /\ result[1].flag

\* C9: GetFunctions returns the decoded list with no error whenever the body
\* decodes, whatever the status; when decoding fails it returns no list and
\* AuthenticationError for 401, UnexpectedStatusError with the status otherwise.
GetFunctionsByDecode ==
    \A i \in Callers :
        Completed(i) /\ Op(i) = "GetFunctions" =>
            LET d == UnmarshalFunctions(ReadAll(i))
            IN /\ d.err = "nil" =>
                      /\ result[i].err = NoError
                      /\ result[i].list = d.list
                      /\ \A k \in 1 .. Len(d.list) : d.list[k] = "{f}"
               /\ d.err # "nil" =>
                      /\ result[i].isNil /\ result[i].list = <<>>
                      /\ result[i].err = IF Status(i) = 401 THEN AuthenticationError
                                         ELSE UnexpectedStatusError(Status(i))

\* GetFunctions has returned a non-empty list for a 401 response.
GetFunctionsWitness ==
    /\ Completed(1) /\ Op(1) = "GetFunctions" /\ Status(1) = 401
    /\ result[1].err = NoError /\ Len(result[1].list) > 0

\* C10 as stated: GetNamespaces returns an error only for a decode failure with
\* status 401; a successful decode returns the list with no error; a decode
\* failure with another status returns an empty list with no error.
GetNamespacesEmptyOnFailure ==
    \A i \in Callers :
        Completed(i) /\ Op(i) = "GetNamespaces" =>
            LET d == UnmarshalStrings(ReadAll(i))
            IN /\ result[i].err.kind # "nil" => (d.err # "nil" /\ Status(i) = 401)
               /\ d.err = "nil" => result[i].err = NoError /\ result[i].list = d.list
               /\ (d.err # "nil" /\ Status(i) # 401) =>
                      result[i].err = NoError /\ Len(result[i].list) = 0

\* C10 as amended: as stated, except that a decode failure on a status other
\* than 401 returns, with no error, the list as far as it was decoded: empty
\* when the body read is no well-formed JSON array, otherwise one entry per
\* array element in order, the strings as sent and "" for every other element.
GetNamespacesPartialOnFailure ==
    \A i \in Callers :
        Completed(i) /\ Op(i) = "GetNamespaces" =>
            LET b == ReadAll(i)
                d == UnmarshalStrings(b)
                elems == IF IsArray(b) THEN ArrayElems(b) ELSE <<>>
            IN /\ result[i].err.kind # "nil" <=> (d.err # "nil" /\ Status(i) = 401)
               /\ result[i].err.kind # "nil" => result[i].err = AuthenticationError
               /\ d.err = "nil" => result[i].err = NoError /\ result[i].list = d.list
               /\ (d.err # "nil" /\ Status(i) # 401) =>
                      /\ result[i].err = NoError
                      /\ Len(result[i].list) = Len(elems)
                      /\ \A k \in 1 .. Len(elems) :
                            result[i].list[k] = IF elems[k] \in {"a", "b"} THEN elems[k] ELSE ""

\* GetNamespaces has returned, with no error, a non-empty list for a body whose
\* decoding failed.
GetNamespacesWitness ==
    /\ Completed(1) /\ Op(1) = "GetNamespaces" /\ Status(1) = 200
    /\ UnmarshalStrings(ReadAll(1)).err # "nil"
    /\ result[1].err = NoError /\ Len(result[1].list) > 0

====
